---- MODULE Spec2Model ----
(***************************************************************************)
(* Model of lib/index.js of sequelize-redis-cache: the Cacher facade, the  *)
(* cache-aside fetch protocol (fetchFromCache / fetchFromDatabase /        *)
(* setCache and the raw-query variants) and the pattern invalidation       *)
(* (clearCacheForPattern / scanRedisForDelete / deleteKey).                *)
(*                                                                         *)
(* The redis client and the sequelize instance are the environment: every  *)
(* command the code issues stays outstanding until its callback runs; the  *)
(* command's effect on the store and the callback are one step.  Commands  *)
(* of different call chains complete in any order.                         *)
(*                                                                         *)
(* Spec is the fetch protocol under the prefix and TTL the instance has,   *)
(* SpecTtl the protocol with ttl() called at any moment, SpecConfig the    *)
(* protocol with model() and prefix() called at any moment, SpecKey the    *)
(* key derivation applied to a range of options objects, SpecSweep the     *)
(* invalidation on a redis that already holds keys, and SpecRace fetches   *)
(* and invalidation sweeps on one instance.                                *)
(***************************************************************************)
EXTENDS Integers, Sequences, FiniteSets, TLC

VARIABLES
  md,           \* this.md: the model handle, Undefined until model() is called
  modelName,    \* this.modelName
  cachePrefix,  \* this.cachePrefix
  method,       \* this.method
  seconds,      \* this.seconds
  cacheHit,     \* this.cacheHit
  toBeDelKeys,  \* this.toBeDelKeys: pattern hash -> keys collected so far
  store,        \* the redis keyspace: key -> [val, ex]
  calls,        \* the fetch calls issued so far, each with its position
  last,         \* the call that settled last, as it settled
  chains,       \* the SCAN chains started by clearCacheForPattern
  unlinks,      \* UNLINK commands issued and not yet executed
  external      \* writes done by other clients so far

vars == <<md, modelName, cachePrefix, method, seconds, cacheHit, toBeDelKeys,
          store, calls, last, chains, unlinks, external>>

\* ------------------------------------------------------------ bounds
MaxCalls == 2      \* retrieval / raw-query calls issued on the instance
MaxSweeps == 2     \* clearCacheForPattern calls issued on the instance
MaxCursor == 1     \* non-terminal SCAN replies of one sweep
MaxExternal == 1   \* writes to the store by other clients of the same redis

\* ------------------------------------------------------------ JS values
Undefined == [t |-> "undefined"]
Null == [t |-> "null"]
Num(n) == [t |-> "number", v |-> n]
Str(s) == [t |-> "string", v |-> s]
\* a plain object / an array / a sequelize instance carrying attributes a
Obj(a) == [t |-> "object", v |-> a]
Arr(s) == [t |-> "array", v |-> s]
Inst(a) == [t |-> "instance", v |-> a]
\* a handle to a model definition (it has .sequelize and .name)
ModelHandle(n) == [t |-> "model", v |-> n]
\* a value JSON.stringify cannot encode (it throws)
Circular == [t |-> "circular"]
\* a serialized text: "json" spells the tree it carries, "garbage" is no
\* JSON, "empty" is the empty string
Text(kind, tree) == [t |-> "text", v |-> <<kind, tree>>]

\* `!x` of the values the code tests with it
Falsy(x) ==
  \/ x.t \in {"undefined", "null"}
  \/ x.t = "number" /\ x.v = 0
  \/ x.t = "text" /\ x.v[1] = "empty"

\* what toJSON / get({plain: true}) of a sequelize instance gives
Plain(x) == IF x.t = "instance" THEN Obj(x.v) ELSE x

\* JSON.stringify(results): instances are encoded through their toJSON
PlainDeep(x) ==
  IF x.t = "array" THEN Arr([i \in DOMAIN x.v |-> Plain(x.v[i])]) ELSE Plain(x)
JSONstringifyThrows(x) == x.t = "circular"
JSONstringify(x) == Text("json", PlainDeep(x))

\* JSON.parse(res): a text that is no JSON throws
JSONparseThrows(s) == s.v[1] # "json"
JSONparse(s) == s.v[2]

\* ------------------------------------------------------------ inputs
methods ==
  {"find", "findOne", "findAll", "findAndCount", "findAndCountAll",
   "all", "min", "max", "sum", "count"}

\* the retrieval methods issued once a model is set
MethodInputs == {"findAll", "find"}
\* the models defined on the sequelize instance and the methods they have
DefinedModels == {"users"}
ModelMethods == methods \ {"find", "findAndCount"}

\* options objects: a sequence of own properties in insertion order; a
\* property key is a string or a symbol (reg: made by Symbol.for)
StrKey(n) == [sym |-> FALSE, reg |-> FALSE, name |-> n]
SymKey(n, r) == [sym |-> TRUE, reg |-> r, name |-> n]
Prop(k, v) == [k |-> k, v |-> v]
Options(props) == [t |-> "options", v |-> props]
ById == Options(<<Prop(StrKey("id"), Num(1))>>)
OptionInputs == {Undefined, ById}
KeyInputs == {Undefined}
SqlInputs == {"SELECT 1"}
PrefixInputs == {"cacher", "app"}
TtlInputs == {0, 60}
PatternInputs == {"users"}

\* options objects for the key derivation: sequelize's { where: {...} } with
\* operator symbols (Op.gt is Symbol.for('gt')), with symbols outside the
\* registry, with a null field and with extra key ids
Where(props) == Options(<<Prop(StrKey("where"), Options(props))>>)
KeyOptionInputs ==
  {Where(<<Prop(SymKey("gt", TRUE), Num(1)), Prop(SymKey("lt", TRUE), Num(2))>>),
   Where(<<Prop(SymKey("lt", TRUE), Num(2)), Prop(SymKey("gt", TRUE), Num(1))>>),
   Where(<<Prop(StrKey("id"), Num(1))>>),
   Where(<<Prop(StrKey("id"), Num(2))>>),
   Where(<<Prop(StrKey("id"), Null)>>),
   Where(<<>>),
   Where(<<Prop(SymKey("a", FALSE), Num(1))>>),
   Where(<<Prop(SymKey("b", FALSE), Num(1))>>)}
KeyIdInputs == {Undefined, Arr(<<"7">>)}

\* what the data source can return
SourceResults ==
  {Null, Arr(<<Inst("a")>>), Inst("a"), Obj("a"), Circular}
\* what another client can have stored under a key
ExternalPayloads == {Text("json", Arr(<<Obj("b")>>)), Text("garbage", Null)}

\* ------------------------------------------------------------ key derivation
\* Symbol.keyFor(k) inside a template string
KeyFor(k) == IF k.reg THEN k.name ELSE "undefined"

\* d[n] = v on an object with string keys: an existing key keeps its place
SetProp(d, n, v) ==
  IF \E i \in DOMAIN d : d[i].k.name = n
  THEN [i \in DOMAIN d |-> IF d[i].k.name = n THEN Prop(StrKey(n), v) ELSE d[i]]
  ELSE Append(d, Prop(StrKey(n), v))

IsSymProp(p) == p.k.sym
IsStrProp(p) == ~p.k.sym

RECURSIVE FoldSymbols(_, _)
FoldSymbols(d, syms) ==
  IF syms = <<>> THEN d
  ELSE FoldSymbols(SetProp(d, KeyFor(Head(syms).k), Head(syms).v), Tail(syms))

RECURSIVE desymbolize(_)
desymbolize(o) ==
  IF o.t = "array" THEN Arr([i \in DOMAIN o.v |-> desymbolize(o.v[i])])
  ELSE IF o.t = "null" THEN Undefined
  ELSE IF o.t # "options" THEN o
  ELSE LET d == FoldSymbols(SelectSeq(o.v, IsStrProp), SelectSeq(o.v, IsSymProp))
       IN  Options([i \in DOMAIN d |-> Prop(d[i].k, desymbolize(d[i].v))])

jsonReplacer(value) == IF value.t = "model" THEN Str(value.v) ELSE value

\* the tree CircularJSON.stringify spells: properties whose value is
\* undefined are left out, an undefined array element is spelled null
Defined(p) == p.v.t # "undefined"
RECURSIVE Spell(_)
Spell(x) ==
  LET y == jsonReplacer(x) IN
  IF y.t = "array"
  THEN Arr([i \in DOMAIN y.v |->
              IF y.v[i].t = "undefined" THEN Null ELSE Spell(y.v[i])])
  ELSE IF y.t = "options"
  THEN LET kept == SelectSeq(y.v, Defined)
       IN  Options([i \in DOMAIN kept |-> Prop(kept[i].k, Spell(kept[i].v))])
  ELSE y
CircularJSONstringify(x) ==
  IF x.t = "undefined" THEN Undefined ELSE Text("json", Spell(x))

\* crypto.createHash('sha1').update(data).digest('hex'), taken as injective;
\* update(undefined) throws a TypeError
SHA1(data) == [t |-> "sha1", v |-> data]
HashData(sql, dash, text) == [sql |-> sql, dash |-> dash, text |-> text]

keyThrows(options) == CircularJSONstringify(desymbolize(options)).t = "undefined"
key(pfx, options, mth, mdl, keys) ==
  LET hash == SHA1(HashData("", FALSE, CircularJSONstringify(desymbolize(options))))
  IN  IF Falsy(keys) \/ Len(keys.v) = 0
      THEN <<pfx, mdl, mth, hash>>
      ELSE <<pfx, mdl, mth, hash, keys.v>>

keySQL(pfx, sql, options) ==
  LET hash == IF Falsy(options)
              THEN SHA1(HashData(sql, FALSE, Undefined))
              ELSE SHA1(HashData(sql, TRUE,
                                 CircularJSONstringify(desymbolize(options))))
  IN  <<pfx, "__raw__", "query", hash>>

\* ------------------------------------------------------------ the store
NoEx == [has |-> FALSE, s |-> 0]
Ex(s) == [has |-> TRUE, s |-> s]
\* an entry: the payload, its expiry, and (for the record only) the value
\* the writing call handed to its caller and the number of invalidation
\* sweeps that had started when that value was read from the source
Entry(val, ex, from) == [val |-> val, ex |-> ex, from |-> from, at |-> 0]

\* GET key
Get(k) == IF k \in DOMAIN store THEN store[k].val ELSE Null
\* SET key val [EX ttl]
Put(k, e) == [x \in DOMAIN store \cup {k} |-> IF x = k THEN e ELSE store[x]]
\* UNLINK key / expiry of key
Drop(k) == [x \in DOMAIN store \ {k} |-> store[x]]

config == <<md, modelName, cachePrefix, seconds>>
sweeps == <<toBeDelKeys, chains, unlinks>>

\* ------------------------------------------------------------ fetch calls
NoKey == <<>>
NewCall(kind) ==
  [kind |-> kind, pc |-> "new", mdSet |-> md.t # "undefined",
   method |-> "", model |-> "", sql |-> "", options |-> Undefined,
   key |-> NoKey, reply |-> Undefined, from |-> Undefined,
   results |-> Undefined, out |-> "pending", value |-> Undefined,
   error |-> "", hit |-> FALSE, nGet |-> 0, nSrc |-> 0, nSet |-> 0,
   invoked |-> <<>>, readAt |-> 0, setArgs |-> <<>>]
\* the slot of a call that has settled
Settled == [NewCall("none") EXCEPT !.pc = "done", !.mdSet = FALSE]

Reject(c, e) == [c EXCEPT !.pc = "done", !.out = "rejected", !.error = e]
Resolve(c, v) == [c EXCEPT !.pc = "done", !.out = "resolved", !.value = v]

\* fetchFromCache up to the GET it issues; a throw inside the promise
\* executor rejects the promise
fetchFromCache(options, mth, mdl, keyIds) ==
  LET c == [NewCall("fetch") EXCEPT !.method = mth, !.model = mdl,
                                     !.options = options]
  IN  IF keyThrows(options) THEN Reject(c, "TypeError")
      ELSE [c EXCEPT !.key = key(cachePrefix, options, mth, mdl, keyIds),
                     !.pc = "get", !.nGet = 1]

\* run(options, keys), with this.method as the retrieval method just set it
run(mth, options, keys) == fetchFromCache(options, mth, modelName, keys)

\* a retrieval method without the guard on this.md
addMethodCallUnguarded(k, options, keys) ==
  [call |-> run(k, options, keys), method |-> k]

\* the retrieval method addMethod(k) installs, called with (options, keys)
addMethodCall(k, options, keys) ==
  IF md.t = "undefined"
  THEN [call |-> Reject(NewCall("fetch"), "Model not set"), method |-> method]
  ELSE [call |-> run(k, options, keys), method |-> k]

\* a call that settles leaves its slot and becomes the last settled call
Issue(c) ==
  /\ calls' = Append(calls, IF c.pc = "done" THEN Settled ELSE c)
  /\ last' = IF c.pc = "done" THEN c ELSE last
Step(i, c) ==
  /\ calls' = [calls EXCEPT ![i] = IF c.pc = "done" THEN Settled ELSE c]
  /\ last' = IF c.pc = "done" THEN c ELSE last

addMethod(k, options, keys) ==
  /\ Len(calls) < MaxCalls
  /\ md.t # "undefined" => k \in MethodInputs
  /\ LET r == addMethodCall(k, options, keys)
     IN  /\ Issue(r.call)
         /\ method' = r.method
  /\ UNCHANGED <<config, cacheHit, store, sweeps, external>>

\* rawFromCache up to the GET it issues
rawFromCache(sql, options) ==
  [NewCall("raw") EXCEPT !.sql = sql, !.options = options,
                         !.key = keySQL(cachePrefix, sql, options),
                         !.pc = "get", !.nGet = 1]

query(sql, options) ==
  /\ Len(calls) < MaxCalls
  /\ Issue(rawFromCache(sql, options))
  /\ UNCHANGED <<config, method, cacheHit, store, sweeps, external>>

\* ------------------------------------------------------------ configuration
model(m) ==
  /\ md' = ModelHandle(m)
  /\ modelName' = m
  /\ UNCHANGED <<cachePrefix, seconds, method, cacheHit, store, calls, last,
                 sweeps, external>>

prefix(p) ==
  /\ cachePrefix' = p
  /\ UNCHANGED <<md, modelName, seconds, method, cacheHit, store, calls, last,
                 sweeps, external>>

ttl(s) ==
  /\ seconds' = s
  /\ UNCHANGED <<md, modelName, cachePrefix, method, cacheHit, store, calls,
                 last, sweeps, external>>

\* ------------------------------------------------------------ callbacks
\* a source fetch that calls the method without resolving it
fetchFromDatabaseUnchecked(c) == [c EXCEPT !.pc = "src", !.nSrc = @ + 1]

\* a source fetch that reads the model and the method from the instance
\* when the GET has answered
fetchFromDatabaseOfInstance(c) ==
  IF method \notin ModelMethods
  THEN Reject(c, "Invalid method")
  ELSE [c EXCEPT !.pc = "src", !.nSrc = @ + 1,
                 !.invoked = <<modelName, method>>]

\* fetchFromDatabase up to the source call: the method is resolved on the
\* model first
fetchFromDatabase(c) ==
  IF c.method \notin ModelMethods
  THEN Reject(c, "Invalid method")
  ELSE [c EXCEPT !.pc = "src", !.nSrc = @ + 1,
                 !.invoked = <<c.model, c.method>>]

\* rawFromDatabase up to sequelize.query
rawFromDatabase(c) == [c EXCEPT !.pc = "src", !.nSrc = @ + 1]

\* what the call keeps of a GET that failed
GetFailed == [t |-> "error"]

\* a callback that never looks at the cached value
onGetIgnoringCache(c, err, res) ==
  IF err
  THEN [call |-> Reject([c EXCEPT !.reply = GetFailed], "StoreError"),
        hit |-> cacheHit]
  ELSE [call |-> IF c.kind = "fetch"
                 THEN [c EXCEPT !.reply = res, !.pc = "src", !.nSrc = @ + 1]
                 ELSE [c EXCEPT !.reply = res, !.pc = "src", !.nSrc = @ + 1],
        hit |-> cacheHit]

\* a callback that falls back to the source when the GET fails
onGetFallingBack(c, err, res) ==
  IF err \/ Falsy(res)
  THEN [call |-> [c EXCEPT !.reply = IF err THEN GetFailed ELSE res,
                           !.pc = "src", !.nSrc = @ + 1],
        hit |-> cacheHit]
  ELSE [call |-> IF JSONparseThrows(res)
                 THEN Reject([c EXCEPT !.reply = res, !.hit = TRUE],
                             "SyntaxError")
                 ELSE Resolve([c EXCEPT !.reply = res, !.hit = TRUE],
                              JSONparse(res)),
        hit |-> TRUE]

\* a callback that treats a payload it cannot parse as a miss
onGetSelfHealing(c, err, res) ==
  IF err
  THEN [call |-> Reject([c EXCEPT !.reply = GetFailed], "StoreError"),
        hit |-> cacheHit]
  ELSE IF Falsy(res) \/ JSONparseThrows(res)
  THEN [call |-> IF c.kind = "fetch"
                 THEN fetchFromDatabase([c EXCEPT !.reply = res])
                 ELSE rawFromDatabase([c EXCEPT !.reply = res]),
        hit |-> cacheHit]
  ELSE [call |-> Resolve([c EXCEPT !.reply = res, !.hit = TRUE],
                         JSONparse(res)),
        hit |-> TRUE]

\* the callback of redis.get in fetchFromCache / rawFromCache
onGet(c, err, res) ==
  IF err
  THEN [call |-> Reject([c EXCEPT !.reply = GetFailed], "StoreError"),
        hit |-> cacheHit]
  ELSE IF Falsy(res)
  THEN [call |-> IF c.kind = "fetch"
                 THEN fetchFromDatabase([c EXCEPT !.reply = res])
                 ELSE rawFromDatabase([c EXCEPT !.reply = res]),
        hit |-> cacheHit]
  ELSE [call |-> IF JSONparseThrows(res)
                 THEN Reject([c EXCEPT !.reply = res, !.hit = TRUE],
                             "SyntaxError")
                 ELSE Resolve([c EXCEPT !.reply = res, !.hit = TRUE],
                              JSONparse(res)),
        hit |-> TRUE]

GetReply(i, err) ==
  /\ calls[i].pc = "get"
  /\ LET k == calls[i].key
         c == [calls[i] EXCEPT
                 !.from = IF ~err /\ k \in DOMAIN store
                          THEN store[k].from ELSE Undefined]
         r == onGet(c, err, Get(k))
     IN  /\ Step(i, r.call)
         /\ cacheHit' = r.hit
  /\ UNCHANGED <<config, method, store, sweeps, external>>

\* a source callback that hands the results on as they are
NormalizeNothing(results) == results

\* the branches on the shape of the source's results
Normalize(results) ==
  IF Falsy(results) THEN results
  ELSE IF results.t = "array" THEN results
  ELSE IF results.t = "instance" THEN Plain(results)
  ELSE results

\* a setCache that passes EX whatever the ttl is
setCacheAlwaysEx(c, k, res, t) ==
  IF JSONstringifyThrows(res) THEN Reject(c, "SerializationError")
  ELSE [c EXCEPT !.pc = "set", !.nSet = @ + 1,
                 !.setArgs = <<k, Entry(JSONstringify(res), Ex(t), res)>>]

\* setCache(key, results, ttl) up to the SET it issues
setCache(c, k, res, t) ==
  IF JSONstringifyThrows(res) THEN Reject(c, "SerializationError")
  ELSE [c EXCEPT !.pc = "set", !.nSet = @ + 1,
                 !.setArgs = <<k, [Entry(JSONstringify(res),
                                         IF t # 0 THEN Ex(t) ELSE NoEx, res)
                                   EXCEPT !.at = c.readAt]>>]

\* a source call that fails where it must not cache: it stores the absent
\* value
onSourceCachingFailure(c, err, results) ==
  IF err THEN setCache(c, c.key, Null, seconds)
  ELSE setCache([c EXCEPT !.results = results, !.value = Normalize(results)],
                c.key, Normalize(results), seconds)

\* the then-callbacks of the source call
onSource(c, err, results) ==
  IF err THEN Reject(c, "SourceError")
  ELSE setCache([c EXCEPT !.results = results, !.value = Normalize(results)],
                c.key, Normalize(results), seconds)

SourceReply(i, err, results) ==
  /\ calls[i].pc = "src"
  /\ Step(i, onSource([calls[i] EXCEPT !.readAt = Len(chains)], err, results))
  /\ UNCHANGED <<config, method, cacheHit, store, sweeps, external>>

\* the callback of redis.set in setCache, then good() / bad()
onSet(c, err) ==
  IF err THEN Reject(c, "StoreError") ELSE Resolve(c, c.value)

\* a redis whose SET does not replace an entry that is there (SET ... NX)
SetReplyFirstWins(i, err) ==
  /\ calls[i].pc = "set"
  /\ Step(i, onSet(calls[i], err))
  /\ store' = IF err \/ calls[i].setArgs[1] \in DOMAIN store THEN store
              ELSE Put(calls[i].setArgs[1], calls[i].setArgs[2])
  /\ UNCHANGED <<config, method, cacheHit, sweeps, external>>

SetReply(i, err) ==
  /\ calls[i].pc = "set"
  /\ Step(i, onSet(calls[i], err))
  /\ store' = IF err THEN store
              ELSE Put(calls[i].setArgs[1], calls[i].setArgs[2])
  /\ UNCHANGED <<config, method, cacheHit, sweeps, external>>

\* ------------------------------------------------------------ environment
\* an entry stored with EX runs out
Expire(k) ==
  /\ k \in DOMAIN store
  /\ store[k].ex.has
  /\ store' = Drop(k)
  /\ UNCHANGED <<config, method, cacheHit, calls, last, sweeps, external>>

\* another client of the same redis writes under key k
ExternalSet(k, p) ==
  /\ external < MaxExternal
  /\ store' = Put(k, Entry(p, NoEx, Undefined))
  /\ external' = external + 1
  /\ UNCHANGED <<config, method, cacheHit, calls, last, sweeps>>

\* ------------------------------------------------------------ invalidation
\* `${this.cachePrefix}:*${pattern}*`, kept as its two parts
FinalPattern(pfx, pattern) == <<pfx, pattern>>
\* the glob prefix:*pattern* against a key prefix:model:method:hash, for
\* patterns that are the name of a model or of a method
Matches(k, fp) == k[1] = fp[1] /\ fp[2] \in {k[2], k[3]}

\* the keys the store of the invalidation runs can hold, in SCAN order
KeyOrder ==
  <<key("cacher", ById, "findAll", "users", Undefined),
    key("cacher", ById, "findOne", "users", Undefined),
    key("cacher", ById, "findAll", "posts", Undefined)>>
KeyUniverse == {KeyOrder[n] : n \in DOMAIN KeyOrder}
In(S) == LET Member(k) == k \in S IN SelectSeq(KeyOrder, Member)

\* this.toBeDelKeys[h]
Pending(h) == IF h \in DOMAIN toBeDelKeys THEN Arr(toBeDelKeys[h]) ELSE Undefined
\* this.toBeDelKeys[h] = list
SetPending(h, list) ==
  [x \in DOMAIN toBeDelKeys \cup {h} |-> IF x = h THEN list ELSE toBeDelKeys[x]]
\* delete this.toBeDelKeys[h]
DeletePending(h) == [x \in DOMAIN toBeDelKeys \ {h} |-> toBeDelKeys[x]]

Scanning(h) == \E j \in DOMAIN chains : chains[j].hash = h /\ chains[j].status = "scanning"

\* a SCAN chain: scanRedisForDelete(pattern, hash, cursor) with its SCAN
\* outstanding; visited is the part of the keyspace the cursor has passed
NewChain(fp, h) ==
  [pattern |-> fp, hash |-> h, cursor |-> 0, status |-> "scanning",
   visited |-> {}, start |-> {k \in DOMAIN store : Matches(k, fp)},
   dup |-> Scanning(h), err |-> FALSE, unlinked |-> <<>>, left |-> FALSE]

\* clearCacheForPattern(pattern): `hash` is read before it is assigned, so
\* the guard looks up this.toBeDelKeys[undefined]
clearCacheForPattern(pattern) ==
  /\ Len(chains) < MaxSweeps
  /\ LET finalPattern == FinalPattern(cachePrefix, pattern)
         hash == SHA1(finalPattern)
     IN  IF ~Falsy(Pending(Undefined))
         THEN UNCHANGED <<toBeDelKeys, chains>>
         ELSE /\ toBeDelKeys' = SetPending(hash, <<>>)
              /\ chains' = Append(chains, NewChain(finalPattern, hash))
  /\ UNCHANGED <<config, method, cacheHit, store, calls, last, unlinks, external>>

\* deleteKey(hash) on the pending map m: the map and the keys unlinked
deleteKey(m, h) ==
  IF h \in DOMAIN m /\ Len(m[h]) > 0
  THEN [map |-> [x \in DOMAIN m \ {h} |-> m[x]], del |-> m[h]]
  ELSE [map |-> m, del |-> <<>>]

\* the callback of redis.scan: what it leaves of the chain, of the pending
\* map and the UNLINKs it issues.  reply is <<cursor, keys>>, cursor 0 being
\* the terminal one.  Reading .concat of a missing entry throws.
onScan(c, err, reply) ==
  LET m1 == IF err THEN DeletePending(c.hash) ELSE toBeDelKeys IN
  IF c.hash \notin DOMAIN m1
  THEN [chain |-> [c EXCEPT !.status = "threw", !.err = err, !.left = FALSE],
        map |-> m1, del |-> <<>>]
  ELSE LET m2 == [m1 EXCEPT ![c.hash] = @ \o reply[2]] IN
       IF reply[1] = 0
       THEN LET r == deleteKey(m2, c.hash)
            IN  [chain |-> [c EXCEPT !.status = "ended", !.cursor = 0,
                                     !.unlinked = r.del,
                                     !.left = c.hash \in DOMAIN r.map],
                 map |-> r.map, del |-> r.del]
       ELSE [chain |-> [c EXCEPT !.cursor = reply[1]], map |-> m2, del |-> <<>>]

\* SCAN cursor MATCH pattern COUNT 100 answers: it passes over `batch` of the
\* keyspace and returns the keys there that match; the terminal reply passes
\* over all that was left
ScanReply(j, err, batch, terminal) ==
  /\ chains[j].status = "scanning"
  /\ batch \subseteq KeyUniverse \ chains[j].visited
  /\ terminal => batch = KeyUniverse \ chains[j].visited
  /\ ~terminal => chains[j].cursor < MaxCursor
  /\ err => batch = {} /\ terminal
  /\ LET c == chains[j]
         found == {k \in batch \cap DOMAIN store : Matches(k, c.pattern)}
         reply == <<IF terminal THEN 0 ELSE c.cursor + 1, In(found)>>
         r == onScan([c EXCEPT !.visited = @ \cup batch], err, reply)
     IN  /\ chains' = [chains EXCEPT ![j] = r.chain]
         /\ toBeDelKeys' = r.map
         /\ unlinks' = unlinks \cup {r.del[n] : n \in DOMAIN r.del}
  /\ UNCHANGED <<config, method, cacheHit, store, calls, last, external>>

\* redis executes an UNLINK the instance has issued
Unlink(k) ==
  /\ k \in unlinks
  /\ unlinks' = unlinks \ {k}
  /\ store' = Drop(k)
  /\ UNCHANGED <<config, method, cacheHit, calls, last, toBeDelKeys, chains,
                 external>>

\* ------------------------------------------------------------ key derivation: properties
\* what an options object says, whatever the order its properties were
\* inserted in: the set of its (key, value) pairs
RECURSIVE Meaning(_)
Meaning(o) ==
  IF o.t = "options"
  THEN [t |-> "meaning",
        v |-> {<<o.v[i].k, Meaning(o.v[i].v)>> : i \in DOMAIN o.v}]
  ELSE IF o.t = "array"
  THEN Arr([i \in DOMAIN o.v |-> Meaning(o.v[i])])
  ELSE o
Keyed == {calls[i] : i \in {n \in DOMAIN calls :
                              calls[n].kind = "fetch" /\ calls[n].pc = "get"}}
\* same prefix, collection, method and extra key ids
SameDescriptor(c, d) ==
  /\ c.key[1] = d.key[1] /\ c.model = d.model /\ c.method = d.method
  /\ Len(c.key) = Len(d.key)
  /\ Len(c.key) = 5 => c.key[5] = d.key[5]

\* C13 as stated: two fetches with the same prefix, collection, method and
\* extra keys whose options say the same get the same key, in whatever order
\* the symbol keys of the options were inserted.
C13_AsStated ==
  \A c, d \in Keyed :
    (SameDescriptor(c, d) /\ Meaning(c.options) = Meaning(d.options))
    => c.key = d.key

\* C14 as stated: two fetches with the same prefix, collection, method and
\* extra keys whose options differ in content (another value of a field, a
\* field present or absent, another operator symbol) get different keys.
C14_AsStated ==
  \A c, d \in Keyed :
    (SameDescriptor(c, d) /\ Meaning(c.options) # Meaning(d.options))
    => c.key # d.key

\* ------------------------------------------------------------ fetch: properties
SettledCall == last.pc = "done"
Answered(c) == c.reply.t \notin {"undefined", "error"}
InFlight == {calls[i] : i \in {n \in DOMAIN calls : calls[n].pc # "done"}}

\* C1: cache-aside round trip.  A fetch that misses and whose source returns
\* a record set R settles with R after one GET, one source invocation and one
\* SET of R's serialization under the key it looked up; a fetch that finds a
\* payload returns what the payload spells with no source invocation and no
\* SET, with cacheHit set; and when the payload was written by an earlier
\* fetch that returned R, what it spells is R as JSON encodes it.
C1_RoundTrip ==
  /\ ( /\ SettledCall /\ last.out = "resolved"
       /\ Answered(last) /\ Falsy(last.reply)
       /\ last.results.t = "array" )
     => /\ last.nGet = 1 /\ last.nSrc = 1 /\ last.nSet = 1
        /\ last.value = last.results
        /\ last.setArgs[1] = last.key
        /\ last.setArgs[2].val = JSONstringify(last.results)
  /\ ( /\ SettledCall /\ last.out = "resolved"
       /\ Answered(last) /\ ~Falsy(last.reply) )
     => /\ last.nGet = 1 /\ last.nSrc = 0 /\ last.nSet = 0
        /\ last.hit /\ cacheHit
        /\ last.value = JSONparse(last.reply)
        /\ last.from.t = "array" => last.value = PlainDeep(last.from)
C1_Witness ==
  /\ SettledCall /\ last.out = "resolved" /\ last.hit
  /\ last.from = Arr(<<Inst("a")>>)
  /\ last.value = Arr(<<Obj("a")>>)
  /\ last.nSrc = 0

\* C7: a retrieval method called while no model is set is rejected with
\* 'Model not set' and has issued no GET, no source call and no SET; no call
\* issued without a model is ever in flight.
C7_ModelNotSet ==
  /\ (SettledCall /\ last.kind = "fetch" /\ ~last.mdSet)
     => /\ last.out = "rejected" /\ last.error = "Model not set"
        /\ last.nGet = 0 /\ last.nSrc = 0 /\ last.nSet = 0
  /\ \A c \in InFlight : c.kind = "fetch" => c.mdSet
C7_Witness ==
  /\ SettledCall /\ last.kind = "fetch" /\ ~last.mdSet
  /\ last.error = "Model not set" /\ md = Undefined

UnresolvableFetch(c) ==
  c.kind = "fetch" /\ c.mdSet /\ c.method \notin ModelMethods

\* C8 as stated: a fetch whose method the model does not have (and whose key
\* can be derived) fails with InvalidMethod without any GET or source call.
C8_AsStated ==
  (SettledCall /\ UnresolvableFetch(last) /\ ~keyThrows(last.options))
  => last.error = "Invalid method" /\ last.nGet = 0 /\ last.nSrc = 0

\* C8 amended: a fetch whose method the model does not have is rejected with
\* InvalidMethod exactly when its GET was issued and found nothing; a GET that
\* fails rejects it with the store's error, a GET that finds a payload
\* settles it as any hit; in no case is the source called or a SET issued,
\* and such a call is never in flight past its GET.
C8_InvalidMethodAfterGet ==
  /\ (SettledCall /\ UnresolvableFetch(last))
     => /\ last.nSrc = 0 /\ last.nSet = 0
        /\ last.error = "Invalid method"
           <=> (last.nGet = 1 /\ Answered(last) /\ Falsy(last.reply))
        /\ last.error = "Invalid method" => last.out = "rejected"
        /\ last.reply = GetFailed => last.error = "StoreError"
        /\ (Answered(last) /\ ~Falsy(last.reply))
           => last.hit /\ last.error \in {"", "SyntaxError"}
  /\ \A c \in InFlight : UnresolvableFetch(c) => c.pc = "get"
C8_Witness ==
  /\ SettledCall /\ UnresolvableFetch(last)
  /\ last.error = "Invalid method" /\ last.nGet = 1 /\ last.reply = Null

\* C9: a call whose GET failed is rejected with the store's error and has
\* called the source and issued a SET zero times, structured or raw.
C9_GetErrorNoFallback ==
  /\ (SettledCall /\ last.reply = GetFailed)
     => /\ last.out = "rejected" /\ last.error = "StoreError"
        /\ last.nGet = 1 /\ last.nSrc = 0 /\ last.nSet = 0
  /\ \A c \in InFlight : c.reply # GetFailed
C9_Witness ==
  /\ SettledCall /\ last.kind = "raw" /\ last.reply = GetFailed
  /\ last.out = "rejected"

SourceReturned(c) == c.nSrc = 1 /\ c.results.t # "undefined"

\* C10: a call issues at most one SET, and only after its own source call
\* returned results; a call whose source call failed is rejected with that
\* error without a SET; every entry a call wrote holds the serialization of
\* the value that call returned.
C10_SetOnlyAfterSource ==
  /\ \A c \in InFlight \cup {last} :
       /\ c.nSet <= 1
       /\ c.nSet = 1 => SourceReturned(c)
       /\ c.pc = "set" => c.nSet = 1
  /\ (SettledCall /\ last.error = "SourceError")
     => last.out = "rejected" /\ last.nSet = 0 /\ last.nSrc = 1
  /\ \A k \in DOMAIN store :
       store[k].from.t # "undefined"
       => store[k].val = JSONstringify(store[k].from)
C10_Witness ==
  /\ SettledCall /\ last.kind = "fetch" /\ last.error = "SourceError"
  /\ last.nSet = 0 /\ store = <<>>

Corrupt(c) == Answered(c) /\ ~Falsy(c.reply) /\ JSONparseThrows(c.reply)
CorruptRejected ==
  /\ (SettledCall /\ Corrupt(last))
     => /\ last.out = "rejected" /\ last.error = "SyntaxError"
        /\ last.nGet = 1 /\ last.nSrc = 0 /\ last.nSet = 0
  /\ \A c \in InFlight : ~Corrupt(c)

\* C11: a call whose GET returned a payload that cannot be parsed is rejected
\* with the parser's error after that one GET, with no source call and no
\* SET, structured or raw, and no such call stays in flight; the step that
\* settles it leaves the store as it was, so the entry is still what the GET
\* returned and the next GET of the key finds it again.
C11_CorruptEntryStays ==
  /\ []CorruptRejected
  /\ [][ (last' # last /\ Corrupt(last'))
         => /\ store' = store
            /\ Get(last'.key) = last'.reply ]_vars
C11_Witness ==
  /\ SettledCall /\ last.kind = "fetch" /\ Corrupt(last)
  /\ last.error = "SyntaxError"
  /\ Get(last.key) = last.reply
  /\ \E c \in InFlight : c.key = last.key /\ c.pc = "get"

\* C12 as stated: the cache-hit indicator is that of the one call: when a
\* fetch that missed and went to the source settles, the instance shows
\* cacheHit false, and it shows cacheHit true only when the fetch that
\* settles was served from the cache.
C12_AsStated ==
  [][ (last' # last /\ last'.out = "resolved")
      => /\ last'.nSrc = 1 => ~cacheHit'
         /\ cacheHit' => last'.hit ]_vars

ByFetch(e) == e.from.t # "undefined"
ExpiryIffNotZero ==
  /\ \A c \in InFlight \cup {last} :
       c.nSet = 1 => (c.setArgs[2].ex.has <=> c.setArgs[2].ex.s # 0)
  /\ \A k \in DOMAIN store :
       ByFetch(store[k])
       => /\ store[k].ex.has <=> store[k].ex.s # 0
          /\ store[k].ex.s \in {30} \cup TtlInputs

\* C15 as stated: every SET a call issues carries an expiry, so no entry
\* written by a fetch is stored without one.
C15_AsStated ==
  /\ \A c \in InFlight \cup {last} : c.nSet = 1 => c.setArgs[2].ex.has
  /\ \A k \in DOMAIN store : ByFetch(store[k]) => store[k].ex.has

\* C15 amended: the SET a call issues when its source call returns carries
\* EX with the value this.seconds has at that moment when that value is not
\* zero, and carries no expiry when it is zero (after ttl(0)); an entry
\* written by a fetch has no expiry only if its SET carried none, and every
\* expiry stored is a value that was configured.
C15_ExpiryUnlessZero ==
  /\ []ExpiryIffNotZero
  /\ [][ \A i \in DOMAIN calls :
           (calls[i].pc = "src" /\ calls'[i].pc = "set")
           => calls'[i].setArgs[2].ex
              = (IF seconds # 0 THEN Ex(seconds) ELSE NoEx) ]_vars
C15_Witness ==
  /\ SettledCall /\ last.out = "resolved" /\ last.nSet = 1
  /\ seconds = 0 /\ last.setArgs[2].ex = NoEx
  /\ last.key \in DOMAIN store /\ store[last.key] = last.setArgs[2]
  /\ \E k \in DOMAIN store : ByFetch(store[k]) /\ store[k].ex = Ex(60)

\* C16: of what the source returned, a call hands the same value to its
\* caller and to setCache: the attribute map of the instance when the source
\* returned one instance, and the results themselves when they are absent, an
\* array or any other value; the payload of the SET is the JSON text of that
\* value.
C16_Normalized ==
  /\ \A c \in InFlight \cup {last} :
       c.nSet = 1
       => /\ c.value = (IF c.results.t = "instance" THEN Obj(c.results.v)
                        ELSE c.results)
          /\ c.setArgs[2].from = c.value
          /\ c.setArgs[2].val = JSONstringify(c.value)
  /\ (SettledCall /\ last.out = "resolved" /\ ~last.hit)
     => last.nSet = 1 /\ last.value.t # "instance"
C16_Witness ==
  /\ SettledCall /\ last.out = "resolved" /\ ~last.hit
  /\ last.results = Inst("a") /\ last.value = Obj("a")
  /\ last.key \in DOMAIN store
  /\ store[last.key].val = Text("json", Obj("a"))

Missed(c) == c.nGet = 1 /\ Answered(c) /\ Falsy(c.reply)
EachMissFetches ==
  /\ \A c \in InFlight :
       (Missed(c) /\ ~UnresolvableFetch(c))
       => (c.nSrc = 1 /\ c.pc \in {"src", "set"})
  /\ (SettledCall /\ Missed(last) /\ last.out = "resolved")
     => /\ last.nSrc = 1 /\ last.nSet = 1
        /\ last.value = Normalize(last.results)

\* C17: fetches are not deduplicated.  A call whose GET found nothing calls
\* the source itself, whatever other calls for the same key are in flight
\* (a resolvable method given), and resolves with what its own source call
\* returned after its own SET; the SET of a call that succeeds makes the
\* entry under the key that call's value, replacing what an earlier SET of
\* another call left there.
C17_NoDeduplication ==
  /\ []EachMissFetches
  /\ [][ \A i \in DOMAIN calls :
           (calls[i].pc = "set" /\ calls'[i].pc = "done"
            /\ last'.out = "resolved")
           => /\ calls[i].setArgs[1] \in DOMAIN store'
              /\ store'[calls[i].setArgs[1]] = calls[i].setArgs[2] ]_vars
C17_Witness ==
  /\ SettledCall /\ Missed(last) /\ last.out = "resolved"
  /\ last.key \in DOMAIN store /\ store[last.key] = last.setArgs[2]
  /\ \E c \in InFlight :
       /\ c.key = last.key /\ Missed(c) /\ c.nSrc = 1 /\ c.pc = "set"
       /\ c.value # last.value

\* C18 as stated: a retrieval method called on a set model without options
\* derives its key without failing and issues its GET as any other fetch.
C18_AsStated ==
  \A c \in InFlight \cup {last} :
    (c.kind = "fetch" /\ c.mdSet /\ c.pc # "new" /\ c.options = Undefined)
    => /\ c.error # "TypeError"
       /\ c.nGet = 1
       /\ Len(c.key) = 4

\* C19: a call issues its SET under the key it issued its GET with, a key
\* made of the prefix, model and method it was issued with, and the source
\* is called with that model and method, whatever model(), prefix() and
\* other retrieval methods have made of the instance's fields meanwhile.
C19_DescriptorCaptured ==
  \A c \in InFlight \cup {last} :
    /\ c.nSet = 1 => c.setArgs[1] = c.key
    /\ (c.kind = "fetch" /\ c.nGet = 1)
       => c.key[2] = c.model /\ c.key[3] = c.method
    /\ (c.kind = "fetch" /\ c.nSrc = 1) => c.invoked = <<c.model, c.method>>
C19_Witness ==
  /\ SettledCall /\ last.kind = "fetch" /\ last.out = "resolved"
  /\ last.nSrc = 1 /\ last.nSet = 1
  /\ last.model # modelName /\ last.method # method
  /\ last.key[1] # cachePrefix
  /\ last.key \in DOMAIN store

\* ------------------------------------------------------------ invalidation: properties
Quiescent ==
  /\ chains # <<>>
  /\ \A j \in DOMAIN chains : chains[j].status # "scanning"
  /\ unlinks = {}
NoScanError == \A j \in DOMAIN chains : ~chains[j].err

\* C2 as stated: a clearCacheForPattern(p) that arrives while a sweep for the
\* same pattern is in flight starts no SCAN chain, so at most one chain per
\* pattern hash is scanning at any time.
C2_AsStated ==
  /\ \A j \in DOMAIN chains : ~chains[j].dup
  /\ \A i, j \in DOMAIN chains :
       ( /\ i # j /\ chains[i].hash = chains[j].hash
         /\ chains[i].status = "scanning" )
       => chains[j].status # "scanning"

\* C3 as stated: when no SCAN fails, no SCAN callback throws, however the
\* invalidation calls for one pattern interleave.
C3_AsStated ==
  NoScanError => \A j \in DOMAIN chains : chains[j].status # "threw"

\* C4 as stated: once the invalidation is over (no SCAN outstanding, every
\* UNLINK executed), with no SCAN error and no write by anyone in between,
\* no key that matched when a sweep started is left in the store.
C4_AsStated ==
  (Quiescent /\ NoScanError /\ external = 0)
  => \A j \in DOMAIN chains : chains[j].start \cap DOMAIN store = {}

\* C5 as stated: the callback of a SCAN that failed removes the pending entry,
\* unlinks nothing, issues no further SCAN and ends without raising.
C5_AsStated ==
  \A j \in DOMAIN chains :
    chains[j].err
    => /\ chains[j].status = "ended"
       /\ chains[j].unlinked = <<>>
       /\ ~chains[j].left

\* C6 as stated: a pending entry exists only while a sweep for its pattern is
\* in flight, and a sweep that reached the terminal cursor has removed it,
\* whether it collected keys or not.
C6_AsStated ==
  /\ \A h \in DOMAIN toBeDelKeys : Scanning(h)
  /\ \A j \in DOMAIN chains : chains[j].status = "ended" => ~chains[j].left

\* C20 as stated: once a sweep has ended and every UNLINK issued so far has
\* been executed, no entry under a key matching the sweep's pattern holds a
\* value that a fetch read from the source before that sweep started.
C20_AsStated ==
  \A j \in DOMAIN chains :
    (chains[j].status = "ended" /\ unlinks = {})
    => \A k \in DOMAIN store :
         (Matches(k, chains[j].pattern) /\ ByFetch(store[k]))
         => store[k].at >= j

\* ------------------------------------------------------------ specification
InitInstance ==
  /\ md = Undefined
  /\ modelName = ""
  /\ cachePrefix = "cacher"
  /\ method = "find"
  /\ seconds = 30
  /\ cacheHit = FALSE
  /\ toBeDelKeys = <<>>
  /\ calls = <<>>
  /\ last = NewCall("none")
  /\ chains = <<>>
  /\ unlinks = {}
  /\ external = 0

\* the fetch protocol, on a redis that starts empty
Init == InitInstance /\ store = <<>>

Waiting == {calls[i].key : i \in {n \in DOMAIN calls : calls[n].pc = "get"}}

Next ==
  \/ \E m \in DefinedModels : model(m)
  \/ \E k \in methods, o \in OptionInputs, ks \in KeyInputs : addMethod(k, o, ks)
  \/ \E q \in SqlInputs, o \in OptionInputs : query(q, o)
  \/ \E i \in DOMAIN calls, err \in BOOLEAN : GetReply(i, err)
  \/ \E i \in DOMAIN calls, err \in BOOLEAN, r \in SourceResults :
       SourceReply(i, err, r)
  \/ \E i \in DOMAIN calls, err \in BOOLEAN : SetReply(i, err)
  \/ \E k \in DOMAIN store : Expire(k)
  \/ \E k \in Waiting, p \in ExternalPayloads : ExternalSet(k, p)

Spec == Init /\ [][Next]_vars

\* the invalidation, on a redis that holds any of the keys of KeyUniverse
StoredBefore == Entry(Text("json", Arr(<<Obj("a")>>)), Ex(30), Undefined)
InitSweep ==
  /\ InitInstance
  /\ \E S \in SUBSET KeyUniverse : store = [k \in S |-> StoredBefore]

NextSweep ==
  \/ \E p \in PatternInputs : clearCacheForPattern(p)
  \/ \E j \in DOMAIN chains, err, terminal \in BOOLEAN, batch \in SUBSET KeyUniverse :
       ScanReply(j, err, batch, terminal)
  \/ \E k \in unlinks : Unlink(k)
  \/ \E k \in KeyUniverse, p \in ExternalPayloads : ExternalSet(k, p)

SpecSweep == InitSweep /\ [][NextSweep]_vars

\* the fetch protocol under a ttl that changes
ConfigOptions == {ById}
ConfigResults == {Arr(<<Inst("a")>>)}
NextTtl ==
  \/ \E m \in DefinedModels : model(m)
  \/ \E s \in TtlInputs : ttl(s)
  \/ \E k \in MethodInputs, o \in ConfigOptions, ks \in KeyInputs :
       addMethod(k, o, ks)
  \/ \E q \in SqlInputs, o \in ConfigOptions : query(q, o)
  \/ \E i \in DOMAIN calls, err \in BOOLEAN : GetReply(i, err)
  \/ \E i \in DOMAIN calls, err \in BOOLEAN, r \in ConfigResults :
       SourceReply(i, err, r)
  \/ \E i \in DOMAIN calls, err \in BOOLEAN : SetReply(i, err)
  \/ \E k \in DOMAIN store : Expire(k)

SpecTtl == Init /\ [][NextTtl]_vars

\* the fetch protocol under a model and a prefix that change
ConfigModels == {"users", "posts"}
NextConfig ==
  \/ \E m \in ConfigModels : model(m)
  \/ \E p \in PrefixInputs : prefix(p)
  \/ \E k \in MethodInputs, o \in ConfigOptions, ks \in KeyInputs :
       addMethod(k, o, ks)
  \/ \E i \in DOMAIN calls, err \in BOOLEAN : GetReply(i, err)
  \/ \E i \in DOMAIN calls, err \in BOOLEAN, r \in ConfigResults :
       SourceReply(i, err, r)
  \/ \E i \in DOMAIN calls, err \in BOOLEAN : SetReply(i, err)

SpecConfig == Init /\ [][NextConfig]_vars

\* the key derivation, as the retrieval methods apply it to the options and
\* key ids they are called with
NextKey ==
  \/ \E m \in DefinedModels : model(m)
  \/ \E k \in MethodInputs, o \in KeyOptionInputs, ks \in KeyIdInputs :
       addMethod(k, o, ks)
  \/ \E p \in PrefixInputs : prefix(p)

SpecKey == Init /\ [][NextKey]_vars

\* fetches and invalidation sweeps on one instance
NextRace ==
  \/ \E m \in DefinedModels : model(m)
  \/ \E k \in MethodInputs, o \in ConfigOptions, ks \in KeyInputs :
       addMethod(k, o, ks)
  \/ \E i \in DOMAIN calls, err \in BOOLEAN : GetReply(i, err)
  \/ \E i \in DOMAIN calls, err \in BOOLEAN, r \in ConfigResults :
       SourceReply(i, err, r)
  \/ \E i \in DOMAIN calls, err \in BOOLEAN : SetReply(i, err)
  \/ \E p \in PatternInputs : clearCacheForPattern(p)
  \/ \E j \in DOMAIN chains, err, terminal \in BOOLEAN, batch \in SUBSET KeyUniverse :
       ScanReply(j, err, batch, terminal)
  \/ \E k \in unlinks : Unlink(k)

SpecRace == Init /\ [][NextRace]_vars

====
